---------------------------- MODULE Spec2Model ----------------------------
(***************************************************************************)
(* A model of src/main.py: the class Logistic_regression.                  *)
(*                                                                         *)
(* One instance of the class is modelled.  Its fields are the variables    *)
(* trained, w, N, D, max_iter, a, error_diff and show.  fit is modelled in *)
(* three steps (the code before the loop, one loop iteration, the code     *)
(* after the loop); the program is single-threaded, so no other method     *)
(* runs while fit is in its loop.  Every other method is one action.       *)
(*                                                                         *)
(* Numbers.  The doubles of the program are modelled in decimal fixed      *)
(* point, written in limbs of four decimal digits:                         *)
(*   - a float (a weight, a draw of randn, a dot product z) is nan, inf,   *)
(*     -inf or a sign and a number of 10^-8: <<2, 3025, 8509>> is          *)
(*     2.30258509;                                                         *)
(*   - a probability is a number of 10^-12: <<0, 9090, 9090, 9091>> is     *)
(*     0.909090909091.  sigmoid is computed to 10^-20 and rounded to the   *)
(*     nearest 10^-12; it is exactly 1, 0 and 0.5 where the double is, and *)
(*     strictly between them on the double's side elsewhere;               *)
(*   - a loss, the loss delta e and error_diff are floats in numbers of    *)
(*     10^-16, the resolution of a double near 1.  A loss is computed from *)
(*     the dot products to 10^-20 and rounded to the nearest 10^-16: where *)
(*     the doubles of sigmoid lose what the loss shows (1 - y for y near   *)
(*     1), the rounding of the doubles is followed;                        *)
(*   - the learning rate a is a number of hundredths; a threshold, a       *)
(*     recall, a specificity and the AUC are fractions.                    *)
(* In fit every update of a weight is rounded to the nearest 10^-8, and    *)
(* the next update multiplies what the rounding lost by the learning rate. *)
(* In the states the specifications reach, nan and inf are where the       *)
(* program has them and the loop is left after the same number of updates  *)
(* as in the program; after one update a weight is within 10^-8 of the     *)
(* program's and a loss or e within 2 * 10^-8; after two updates a weight  *)
(* is within 10^-8 and a loss or e within 4 * 10^-8 with a = 0.01, and     *)
(* within 2 * 10^-6 and 8 * 10^-6 with a = 100.  What fit prints after the *)
(* loop is what the program prints.                                        *)
(***************************************************************************)
EXTENDS Integers, Sequences, FiniteSets

VARIABLES trained, w, N, D, max_iter, a, error_diff, show,
          pc, w_init, lw, y_prob, iterations, e, e_prev, updates,
          op, args, result, out

vars == <<trained, w, N, D, max_iter, a, error_diff, show,
          pc, w_init, lw, y_prob, iterations, e, e_prev, updates,
          op, args, result, out>>

self == <<trained, w, N, D, max_iter, a, error_diff, show>>
config == <<max_iter, a, error_diff, show>>
fitLocals == <<pc, w_init, lw, y_prob, iterations, e, e_prev, updates>>

(***************************************************************************)
(* Bounds of the model.                                                    *)
(***************************************************************************)
\* rows of a feature matrix and length of a label vector that the methods
\* are given in Spec, and fit in EvalSpec and RocSpec
MaxRows == 1
\* rows of the feature matrix and length of the label vector fit is given in
\* FitSpec
MaxFitRows == 2
\* rows of the feature matrix predict is given in EvalSpec
MaxEvalRows == 2
\* rows of the feature matrix ROC is given in RocSpec
MaxRocRows == 3
\* length of a label vector, in PureSpec
MaxLabels == 4
\* the largest max_iter a model is constructed with
MaxIter == 3

(***************************************************************************)
(* Python values.                                                          *)
(***************************************************************************)
None == [kind |-> "None"]
PyInt(n) == [kind |-> "int", v |-> n]
Arr(s) == [kind |-> "array", v |-> s]
\* an array of shape (0, d)
Empty2d(d) == [kind |-> "array2d", shape |-> <<0, d>>]
List(s) == [kind |-> "list", v |-> s]
Tuple(s) == [kind |-> "tuple", v |-> s]
Raise(exc, where) == [kind |-> "raise", exc |-> exc, where |-> where]
IsRaise(r) == r.kind = "raise"

\* a fraction num/den with den > 0, in lowest terms
RECURSIVE Gcd(_, _)
Gcd(x, y) == IF y = 0 THEN x ELSE Gcd(y, x % y)
Abs(x) == IF x < 0 THEN -x ELSE x
Frac(n, d) ==
    LET g == Gcd(Abs(n), d) IN [num |-> n \div g, den |-> d \div g]
FracAdd(x, y) == Frac(x.num * y.den + y.num * x.den, x.den * y.den)
FracSub(x, y) == Frac(x.num * y.den - y.num * x.den, x.den * y.den)
FracMul(x, y) == Frac(x.num * y.num, x.den * y.den)
FracLeq(x, y) == x.num * y.den <= y.num * x.den

(***************************************************************************)
(* Inputs: feature matrices, label vectors, thresholds.                    *)
(***************************************************************************)
\* the values of an entry of a feature matrix; with entries of both signs
\* a row of fit can get a probability of exactly 1.0 or 0.0 on the wrong
\* side of its label, and the loss is inf
Features == {0, 1}
SignedFeatures == {-4, 0, 1}
Labels == {0, 1}
\* the numbers of columns of the matrices fit and ROC are called with, and of
\* those y_probab and predict are called with: in Spec as many as the model
\* was fitted with or one more, in EvalSpec as many or none
FitDims == {1}
AnyDims == {1, 2}
EvalDims == {0, 1}

SeqsOfLen(S, n) == [1..n -> S]
SeqsUpTo(S, n) == UNION {SeqsOfLen(S, k) : k \in 0..n}

\* an array of shape (n, d): X.shape[0] is Len(X.rows), X.shape[1] is X.cols
Matrices(n, dims, feats) ==
    UNION {{[cols |-> d, rows |-> r] : r \in SeqsUpTo(SeqsOfLen(feats, d), n)} :
           d \in dims}
LabelVectors(n) == SeqsUpTo(Labels, n)
Rows(X) == Len(X.rows)

\* the thresholds p that predict is called with by a caller
Thresholds == {Frac(0, 1), Frac(1, 2), Frac(3, 5), Frac(10, 11), Frac(1, 1)}

(***************************************************************************)
(* Decimal arithmetic.  A number is a sequence of limbs of four decimal    *)
(* digits, most significant first: <<12, 3456>> is 123456.  A fixed-point  *)
(* number has a set count of fractional limbs at its end.  No intermediate *)
(* value leaves 32 bits.                                                   *)
(***************************************************************************)
Base == 10000
\* fractional limbs of the working precision (10^-20), of a probability
\* (10^-12) and of a float (10^-8)
Work == 5
ProbLimbs == 3
FloatLimbs == 2
LossLimbs == 4

\* the element of a set of one element.  Only({f(v) : v \in {x}}) is f(x)
\* with x evaluated once, however often f uses it
Only(S) == CHOOSE r \in S : TRUE

Max(m, n) == IF m >= n THEN m ELSE n

RECURSIVE Zeros(_)
Zeros(n) == IF n <= 0 THEN <<>> ELSE <<0>> \o Zeros(n - 1)

\* x with zero limbs in front, up to n limbs
Pad(x, n) == Zeros(n - Len(x)) \o x

RECURSIVE Trim(_, _)
\* x without leading zero limbs, down to n limbs
Trim(x, n) == IF Len(x) > n /\ x[1] = 0 THEN Trim(Tail(x), n) ELSE x

\* the limbs of the column sums cols[1..k] with the carry c into the last of
\* them, in front of acc; a carry out of the first column is put in front
RECURSIVE Carry(_, _, _, _)
Carry(cols, k, c, acc) ==
    IF k = 0
    THEN IF c = 0 THEN acc ELSE Carry(<<c>>, 1, 0, acc)
    ELSE Only({Carry(cols, k - 1, s \div Base, <<s % Base>> \o acc)
               : s \in {cols[k] + c}})

Normalize(cols) == Only({Carry(cc, Len(cc), 0, <<>>) : cc \in {cols}})

Add(x, y) ==
    Only({Normalize([i \in 1..n |-> Pad(x, n)[i] + Pad(y, n)[i]]) :
          n \in {Max(Len(x), Len(y))}})
\* x - y for x >= y
Sub(x, y) ==
    Only({Normalize([i \in 1..n |-> Pad(x, n)[i] - Pad(y, n)[i]]) :
          n \in {Max(Len(x), Len(y))}})

RECURSIVE LessFrom(_, _, _)
LessFrom(x, y, i) ==
    IF i > Len(x) THEN FALSE
    ELSE IF x[i] # y[i] THEN x[i] < y[i]
    ELSE LessFrom(x, y, i + 1)
\* x < y
Less(x, y) ==
    IF Len(x) = Len(y) THEN LessFrom(x, y, 1)
    ELSE Only({LessFrom(Pad(x, n), Pad(y, n), 1) : n \in {Max(Len(x), Len(y))}})
IsZero(x) == \A i \in 1..Len(x) : x[i] = 0

\* x * n for a natural n below 200000
MulInt(x, n) == Normalize([i \in 1..Len(x) |-> x[i] * n])

RECURSIVE ColSum(_, _, _, _, _)
ColSum(x, y, k, i, hi) ==
    IF i > hi THEN 0 ELSE x[i] * y[k + 1 - i] + ColSum(x, y, k, i + 1, hi)
Columns(x, y) ==
    [k \in 1..(Len(x) + Len(y) - 1) |->
        ColSum(x, y, k, Max(1, k + 1 - Len(y)),
               IF Len(x) <= k THEN Len(x) ELSE k)]
\* the product of two whole numbers
Times(x, y) == Normalize(Columns(x, y))
\* x without its last n limbs: the floor of x / Base^n
Drop(x, n) == SubSeq(x, 1, Len(x) - n)

\* the carry out of the columns below the working precision in the product
\* of two numbers of Work + 1 limbs
LowCarry(x, y) ==
    (x[2] * y[6] + x[3] * y[5] + x[4] * y[4] + x[5] * y[3] + x[6] * y[2]
      + (x[3] * y[6] + x[4] * y[5] + x[5] * y[4] + x[6] * y[3]
          + (x[4] * y[6] + x[5] * y[5] + x[6] * y[4]
              + (x[5] * y[6] + x[6] * y[5]
                  + (x[6] * y[6]) \div Base) \div Base) \div Base) \div Base) \div Base
\* the columns of that product from the working precision up
HighColumns(x, y) ==
    <<x[1] * y[1],
      x[1] * y[2] + x[2] * y[1],
      x[1] * y[3] + x[2] * y[2] + x[3] * y[1],
      x[1] * y[4] + x[2] * y[3] + x[3] * y[2] + x[4] * y[1],
      x[1] * y[5] + x[2] * y[4] + x[3] * y[3] + x[4] * y[2] + x[5] * y[1],
      x[1] * y[6] + x[2] * y[5] + x[3] * y[4] + x[4] * y[3] + x[5] * y[2] + x[6] * y[1]>>
\* the product of two numbers of the working precision, floored
Mul(x, y) ==
    Only({IF Len(u) = Work + 1 /\ Len(v) = Work + 1
          THEN Trim(Carry(HighColumns(u, v), Work + 1, LowCarry(u, v), <<>>), Work + 1)
          ELSE Trim(Drop(Times(u, v), Work), Work + 1)
          : <<u, v>> \in {<<x, y>>}})
\* x to n limbs fewer, rounded to nearest
Round(x, n) == Drop(Add(x, <<Base \div 2>> \o Zeros(n - 1)), n)

RECURSIVE DivIntFrom(_, _, _, _, _)
DivIntFrom(x, n, i, rem, acc) ==
    IF i > Len(x) THEN acc
    ELSE Only({DivIntFrom(x, n, i + 1, cur % n, Append(acc, cur \div n))
               : cur \in {rem * Base + x[i]}})
\* the floor of x / n for a natural n below 200000
DivInt(x, n) == Only({DivIntFrom(v, n, 1, 0, <<>>) : v \in {x}})

RECURSIVE FromInt(_)
\* the limbs of a natural number
FromInt(n) == IF n < Base THEN <<n>> ELSE FromInt(n \div Base) \o <<n % Base>>

RECURSIVE Bisect(_, _, _, _)
\* the floor of n / d, known to be at least lo and below hi
Bisect(n, d, lo, hi) ==
    IF hi - lo <= 1 THEN lo
    ELSE Only({IF Less(n, Times(d, FromInt(mid))) THEN Bisect(n, d, lo, mid)
               ELSE Bisect(n, d, mid, hi)
               : mid \in {lo + (hi - lo) \div 2}})
\* the floor of n / d for a quotient below 2^31 - 1
DivFloor(n, d) == Only({Bisect(p[1], p[2], 0, 2147483647) : p \in {<<n, d>>}})

(***************************************************************************)
(* Tables of np.exp, np.log and powers of two, floored at 10^-20.          *)
(***************************************************************************)
\* np.exp(-n) for n = 0, 1, ..., 46
ExpUnits ==
    <<<<1, 0, 0, 0, 0, 0>>,
      <<0, 3678, 7944, 1171, 4423, 2159>>,
      <<0, 1353, 3528, 3236, 6126, 9189>>,
      <<0, 497, 8706, 8367, 8639, 4297>>,
      <<0, 183, 1563, 8888, 7341, 8029>>,
      <<0, 67, 3794, 6999, 854, 6709>>,
      <<0, 24, 7875, 2176, 6663, 5842>>,
      <<0, 9, 1188, 1965, 5545, 1620>>,
      <<0, 3, 3546, 2627, 9025, 1183>>,
      <<0, 1, 2340, 9804, 866, 7954>>,
      <<0, 0, 4539, 9929, 7624, 8485>>,
      <<0, 0, 1670, 1700, 7902, 4565>>,
      <<0, 0, 614, 4212, 3533, 2820>>,
      <<0, 0, 226, 329, 4069, 8105>>,
      <<0, 0, 83, 1528, 7191, 356>>,
      <<0, 0, 30, 5902, 3205, 182>>,
      <<0, 0, 11, 2535, 1747, 1925>>,
      <<0, 0, 4, 1399, 3771, 8785>>,
      <<0, 0, 1, 5229, 9797, 4471>>,
      <<0, 0, 0, 5602, 7964, 3753>>,
      <<0, 0, 0, 2061, 1536, 2243>>,
      <<0, 0, 0, 758, 2560, 4279>>,
      <<0, 0, 0, 278, 9468, 928>>,
      <<0, 0, 0, 102, 6187, 9631>>,
      <<0, 0, 0, 37, 7513, 4544>>,
      <<0, 0, 0, 13, 8879, 4386>>,
      <<0, 0, 0, 5, 1090, 8902>>,
      <<0, 0, 0, 1, 8795, 2881>>,
      <<0, 0, 0, 0, 6914, 4001>>,
      <<0, 0, 0, 0, 2543, 6656>>,
      <<0, 0, 0, 0, 935, 7622>>,
      <<0, 0, 0, 0, 344, 2477>>,
      <<0, 0, 0, 0, 126, 6416>>,
      <<0, 0, 0, 0, 46, 5888>>,
      <<0, 0, 0, 0, 17, 1390>>,
      <<0, 0, 0, 0, 6, 3051>>,
      <<0, 0, 0, 0, 2, 3195>>,
      <<0, 0, 0, 0, 0, 8533>>,
      <<0, 0, 0, 0, 0, 3139>>,
      <<0, 0, 0, 0, 0, 1154>>,
      <<0, 0, 0, 0, 0, 424>>,
      <<0, 0, 0, 0, 0, 156>>,
      <<0, 0, 0, 0, 0, 57>>,
      <<0, 0, 0, 0, 0, 21>>,
      <<0, 0, 0, 0, 0, 7>>,
      <<0, 0, 0, 0, 0, 2>>,
      <<0, 0, 0, 0, 0, 1>>>>

\* np.exp(-d / 10^k) for the digit d = 0, ..., 9, at ExpDigits[k][d + 1], for
\* k = 1, ..., 8
ExpDigits ==
    <<
   <<<<1, 0, 0, 0, 0, 0>>,
         <<0, 9048, 3741, 8035, 9595, 7316>>,
         <<0, 8187, 3075, 3077, 9818, 5866>>,
         <<0, 7408, 1822, 681, 7178, 6606>>,
         <<0, 6703, 2004, 6035, 6393, 74>>,
         <<0, 6065, 3065, 9712, 6334, 2360>>,
         <<0, 5488, 1163, 6094, 264, 3262>>,
         <<0, 4965, 8530, 3791, 4095, 1470>>,
         <<0, 4493, 2896, 4117, 2215, 9143>>,
         <<0, 4065, 6965, 9740, 5991, 1188>>>>,
   <<<<1, 0, 0, 0, 0, 0>>,
         <<0, 9900, 4983, 3749, 1680, 5357>>,
         <<0, 9801, 9867, 3306, 7553, 222>>,
         <<0, 9704, 4553, 3548, 5081, 7693>>,
         <<0, 9607, 8943, 9152, 3232, 943>>,
         <<0, 9512, 2942, 4500, 7140, 909>>,
         <<0, 9417, 6453, 3584, 2487, 953>>,
         <<0, 9323, 9381, 9905, 9482, 2885>>,
         <<0, 9231, 1634, 6386, 6357, 8291>>,
         <<0, 9139, 3118, 5271, 2281, 8674>>>>,
   <<<<1, 0, 0, 0, 0, 0>>,
         <<0, 9990, 49, 9833, 3749, 9166>>,
         <<0, 9980, 199, 8667, 3330, 6675>>,
         <<0, 9970, 449, 5503, 3729, 7601>>,
         <<0, 9960, 798, 9343, 9914, 7235>>,
         <<0, 9950, 1247, 9192, 6823, 1335>>,
         <<0, 9940, 1796, 4053, 9352, 6474>>,
         <<0, 9930, 2444, 2933, 2351, 490>>,
         <<0, 9920, 3191, 4837, 606, 3033>>,
         <<0, 9910, 4037, 8772, 8836, 6216>>>>,
   <<<<1, 0, 0, 0, 0, 0>>,
         <<0, 9999, 0, 4999, 8333, 3749>>,
         <<0, 9998, 1, 9998, 6667, 3333>>,
         <<0, 9997, 4, 4995, 5003, 3747>>,
         <<0, 9996, 7, 9989, 3343, 9991>>,
         <<0, 9995, 12, 4979, 1692, 7057>>,
         <<0, 9994, 17, 9964, 53, 9935>>,
         <<0, 9993, 24, 4942, 8433, 3609>>,
         <<0, 9992, 31, 9914, 6837, 3060>>,
         <<0, 9991, 40, 4878, 5273, 3257>>>>,
   <<<<1, 0, 0, 0, 0, 0>>,
         <<0, 9999, 9000, 49, 9998, 3333>>,
         <<0, 9999, 8000, 199, 9986, 6667>>,
         <<0, 9999, 7000, 449, 9955, 3>>,
         <<0, 9999, 6000, 799, 9893, 3343>>,
         <<0, 9999, 5000, 1249, 9791, 6692>>,
         <<0, 9999, 4000, 1799, 9640, 53>>,
         <<0, 9999, 3000, 2449, 9428, 3433>>,
         <<0, 9999, 2000, 3199, 9146, 6837>>,
         <<0, 9999, 1000, 4049, 8785, 273>>>>,
   <<<<1, 0, 0, 0, 0, 0>>,
         <<0, 9999, 9900, 0, 4999, 9983>>,
         <<0, 9999, 9800, 1, 9999, 9866>>,
         <<0, 9999, 9700, 4, 4999, 9550>>,
         <<0, 9999, 9600, 7, 9999, 8933>>,
         <<0, 9999, 9500, 12, 4999, 7916>>,
         <<0, 9999, 9400, 17, 9999, 6400>>,
         <<0, 9999, 9300, 24, 4999, 4283>>,
         <<0, 9999, 9200, 31, 9999, 1466>>,
         <<0, 9999, 9100, 40, 4998, 7850>>>>,
   <<<<1, 0, 0, 0, 0, 0>>,
         <<0, 9999, 9990, 0, 49, 9999>>,
         <<0, 9999, 9980, 0, 199, 9999>>,
         <<0, 9999, 9970, 0, 449, 9999>>,
         <<0, 9999, 9960, 0, 799, 9998>>,
         <<0, 9999, 9950, 0, 1249, 9997>>,
         <<0, 9999, 9940, 0, 1799, 9996>>,
         <<0, 9999, 9930, 0, 2449, 9994>>,
         <<0, 9999, 9920, 0, 3199, 9991>>,
         <<0, 9999, 9910, 0, 4049, 9987>>>>,
   <<<<1, 0, 0, 0, 0, 0>>,
         <<0, 9999, 9999, 0, 0, 4999>>,
         <<0, 9999, 9998, 0, 1, 9999>>,
         <<0, 9999, 9997, 0, 4, 4999>>,
         <<0, 9999, 9996, 0, 7, 9999>>,
         <<0, 9999, 9995, 0, 12, 4999>>,
         <<0, 9999, 9994, 0, 17, 9999>>,
         <<0, 9999, 9993, 0, 24, 4999>>,
         <<0, 9999, 9992, 0, 31, 9999>>,
         <<0, 9999, 9991, 0, 40, 4999>>>>
    >>

\* np.exp(n) for n = 0, 1, 2
GrowUnits ==
    <<<<1, 0, 0, 0, 0, 0>>,
      <<2, 7182, 8182, 8459, 452, 3536>>,
      <<7, 3890, 5609, 8930, 6502, 2723>>>>

\* np.exp(d / 10^k) for the digit d = 0, ..., 9, at GrowDigits[k][d + 1], for
\* k = 1, ..., 6
GrowDigits ==
    <<
   <<<<1, 0, 0, 0, 0, 0>>,
         <<1, 1051, 7091, 8075, 6476, 2481>>,
         <<1, 2214, 275, 8160, 1698, 3392>>,
         <<1, 3498, 5880, 7576, 31, 398>>,
         <<1, 4918, 2469, 7641, 2703, 1782>>,
         <<1, 6487, 2127, 700, 1281, 4684>>,
         <<1, 8221, 1880, 390, 5089, 7487>>,
         <<2, 137, 5270, 7470, 4765, 2162>>,
         <<2, 2255, 4092, 8492, 4676, 457>>,
         <<2, 4596, 311, 1156, 9496, 6380>>>>,
   <<<<1, 0, 0, 0, 0, 0>>,
         <<1, 100, 5016, 7084, 1680, 5754>>,
         <<1, 202, 134, 26, 7558, 1016>>,
         <<1, 304, 5453, 3953, 5168, 5561>>,
         <<1, 408, 1077, 4192, 3882, 2675>>,
         <<1, 512, 7109, 6376, 240, 3969>>,
         <<1, 618, 3654, 6545, 3596, 2222>>,
         <<1, 725, 818, 1254, 2164, 7905>>,
         <<1, 832, 8706, 7674, 9585, 5443>>,
         <<1, 941, 7428, 3705, 2103, 5787>>>>,
   <<<<1, 0, 0, 0, 0, 0>>,
         <<1, 10, 50, 166, 7083, 4166>>,
         <<1, 20, 200, 1334, 2, 6675>>,
         <<1, 30, 450, 4503, 3770, 2601>>,
         <<1, 40, 801, 677, 3418, 7235>>,
         <<1, 50, 1252, 859, 4010, 6338>>,
         <<1, 60, 1803, 6054, 648, 6485>>,
         <<1, 70, 2455, 7266, 8485, 5523>>,
         <<1, 80, 3208, 5504, 2734, 3117>>,
         <<1, 90, 4062, 1773, 8678, 1406>>>>,
   <<<<1, 0, 0, 0, 0, 0>>,
         <<1, 1, 0, 5000, 1666, 7083>>,
         <<1, 2, 2, 1, 3334, 0>>,
         <<1, 3, 4, 5004, 5003, 3752>>,
         <<1, 4, 8, 10, 6677, 3341>>,
         <<1, 5, 12, 5020, 8359, 3776>>,
         <<1, 6, 18, 36, 54, 64>>,
         <<1, 7, 24, 5057, 1766, 7223>>,
         <<1, 8, 32, 85, 3504, 273>>,
         <<1, 9, 40, 5121, 5273, 4242>>>>,
   <<<<1, 0, 0, 0, 0, 0>>,
         <<1, 0, 1000, 50, 1, 6666>>,
         <<1, 0, 2000, 200, 13, 3334>>,
         <<1, 0, 3000, 450, 45, 3>>,
         <<1, 0, 4000, 800, 106, 6677>>,
         <<1, 0, 5000, 1250, 208, 3359>>,
         <<1, 0, 6000, 1800, 360, 54>>,
         <<1, 0, 7000, 2450, 571, 6766>>,
         <<1, 0, 8000, 3200, 853, 3504>>,
         <<1, 0, 9000, 4050, 1215, 273>>>>,
   <<<<1, 0, 0, 0, 0, 0>>,
         <<1, 0, 100, 0, 5000, 16>>,
         <<1, 0, 200, 2, 0, 133>>,
         <<1, 0, 300, 4, 5000, 450>>,
         <<1, 0, 400, 8, 0, 1066>>,
         <<1, 0, 500, 12, 5000, 2083>>,
         <<1, 0, 600, 18, 0, 3600>>,
         <<1, 0, 700, 24, 5000, 5716>>,
         <<1, 0, 800, 32, 0, 8533>>,
         <<1, 0, 900, 40, 5001, 2150>>>>
    >>

\* 2^52 * np.exp(-n) for n = 0, 1, ..., 46
ExpUnits52 ==
    <<<<0, 4503, 5996, 2737, 496, 0, 0, 0, 0, 0>>,
      <<0, 1656, 7817, 1417, 6973, 9440, 2586, 9590, 5506, 4406>>,
      <<0, 609, 4959, 3115, 4489, 4530, 5531, 4104, 9922, 2837>>,
      <<0, 224, 2210, 2254, 9381, 4620, 7053, 5891, 2449, 7162>>,
      <<0, 82, 4863, 447, 4355, 8198, 1865, 9689, 9114, 4867>>,
      <<0, 30, 3450, 1559, 4323, 4613, 6890, 4049, 8506, 8045>>,
      <<0, 11, 1633, 737, 9178, 4176, 6392, 703, 3758, 8303>>,
      <<0, 4, 1067, 5128, 277, 1946, 6323, 8464, 1215, 7621>>,
      <<0, 1, 5107, 8936, 6018, 4796, 7146, 6461, 2127, 2451>>,
      <<0, 0, 5557, 8834, 7698, 6359, 3356, 983, 641, 2397>>,
      <<0, 0, 2044, 6310, 6760, 9734, 6834, 6121, 9142, 5739>>,
      <<0, 0, 752, 1777, 3455, 4038, 6985, 4737, 2481, 6475>>,
      <<0, 0, 276, 7107, 2464, 9341, 2377, 7838, 915, 2832>>,
      <<0, 0, 101, 7961, 8675, 144, 5046, 1642, 1639, 9124>>,
      <<0, 0, 37, 4487, 2429, 5026, 9416, 1352, 7382, 1896>>,
      <<0, 0, 13, 7766, 1576, 6237, 9265, 9465, 4204, 5057>>,
      <<0, 0, 5, 681, 3370, 9317, 2900, 9933, 3748, 766>>,
      <<0, 0, 1, 8644, 6219, 6765, 7937, 8265, 9623, 3491>>,
      <<0, 0, 0, 6858, 9731, 1031, 4799, 5222, 6715, 6672>>,
      <<0, 0, 0, 2523, 2751, 9483, 2558, 560, 7234, 8446>>,
      <<0, 0, 0, 928, 2610, 6859, 6763, 7036, 9443, 3518>>,
      <<0, 0, 0, 341, 4881, 6317, 6583, 3183, 7116, 8751>>,
      <<0, 0, 0, 125, 6264, 7463, 6063, 7789, 4469, 5086>>,
      <<0, 0, 0, 46, 2153, 9728, 5453, 5159, 398, 9954>>,
      <<0, 0, 0, 17, 16, 9452, 6888, 8318, 6632, 2052>>,
      <<0, 0, 0, 6, 2545, 7388, 1519, 4329, 1687, 3274>>,
      <<0, 0, 0, 2, 3009, 2914, 4298, 8678, 7893, 4757>>,
      <<0, 0, 0, 0, 8464, 6452, 7779, 7524, 8656, 774>>,
      <<0, 0, 0, 0, 3113, 9689, 7451, 641, 5966, 5157>>,
      <<0, 0, 0, 0, 1145, 5651, 6616, 8184, 1494, 9406>>,
      <<0, 0, 0, 0, 421, 4298, 7315, 5422, 485, 2777>>,
      <<0, 0, 0, 0, 155, 353, 8622, 9368, 4851, 7494>>,
      <<0, 0, 0, 0, 57, 343, 3124, 7858, 8026, 5379>>,
      <<0, 0, 0, 0, 20, 9817, 5790, 7049, 2269, 2698>>,
      <<0, 0, 0, 0, 7, 7187, 5737, 3639, 7608, 4812>>,
      <<0, 0, 0, 0, 2, 8395, 7214, 9152, 5450, 4015>>,
      <<0, 0, 0, 0, 1, 446, 2021, 5396, 2297, 3468>>,
      <<0, 0, 0, 0, 0, 3842, 9430, 1076, 3567, 321>>,
      <<0, 0, 0, 0, 0, 1413, 7397, 2725, 3401, 944>>,
      <<0, 0, 0, 0, 0, 520, 857, 8082, 3848, 4809>>,
      <<0, 0, 0, 0, 0, 191, 3288, 6641, 690, 6123>>,
      <<0, 0, 0, 0, 0, 70, 3859, 5645, 5130, 4039>>,
      <<0, 0, 0, 0, 0, 25, 8935, 4632, 7030, 8463>>,
      <<0, 0, 0, 0, 0, 9, 5257, 335, 2734, 9606>>,
      <<0, 0, 0, 0, 0, 3, 5043, 1042, 6169, 718>>,
      <<0, 0, 0, 0, 0, 1, 2891, 6376, 1270, 3370>>,
      <<0, 0, 0, 0, 0, 0, 4742, 5684, 4074, 6062>>>>

\* 53 * np.log(2), np.log(10) and 2^52
Ln2Times53 == <<0, 36, 7368, 56, 9677, 1013, 9911>>

Ln10 == <<2, 3025, 8509, 2994, 456, 8401>>

TwoTo52 == <<4503, 5996, 2737, 496>>

(***************************************************************************)
(* sigmoid (lines 30-32) and cross_entropy (lines 35-37).                  *)
(***************************************************************************)
Zero == Zeros(Work + 1)
OneW == <<1>> \o Zeros(Work)

\* the table of np.exp(d / 10^k) and of np.exp(-d / 10^k) for the k-th
\* decimal digit d, k = 0 for the units 0, 1, 2
GrowTable(k) == IF k = 0 THEN GrowUnits ELSE GrowDigits[k]
ShrinkTable(k) ==
    IF k = 0 THEN SubSeq(ExpUnits, 1, Len(GrowUnits)) ELSE ExpDigits[k]

RECURSIVE Pow10(_)
Pow10(k) == IF k = 0 THEN 1 ELSE 10 * Pow10(k - 1)
\* the k-th decimal digit of the fraction of the magnitude m of a float
Digit(m, k) == (m[2 + ((k - 1) \div 4)] \div Pow10(3 - ((k - 1) % 4))) % 10

RECURSIVE ExpFracFrom(_, _, _)
ExpFracFrom(m, k, acc) ==
    IF k > 4 * FloatLimbs THEN acc
    ELSE Only({ExpFracFrom(m, k + 1,
                           IF d = 0 THEN acc ELSE Mul(acc, ExpDigits[k][d + 1]))
               : d \in {Digit(m, k)}})
\* np.exp(-f) for the fraction f of the magnitude m of a float: the product
\* of one table entry for each digit of f
ExpFrac(m) == ExpFracFrom(m, 1, OneW)

\* np.exp(-m) for the magnitude m of a float; it is below 10^-20 from 47 on
ExpNeg(m) ==
    IF Len(m) > FloatLimbs + 1 \/ m[1] >= Len(ExpUnits) THEN Zero
    ELSE Mul(ExpUnits[m[1] + 1], ExpFrac(m))

RECURSIVE DivDigits(_, _, _, _)
\* acc followed by the next k decimal digits of num / den, for num < den
DivDigits(num, den, k, acc) ==
    IF k = 0 THEN acc
    ELSE DivDigits((num * 10) % den, den, k - 1, acc * 10 + (num * 10) \div den)

\* 1 / d for 1 <= d <= 2 from the first eight digits of d, to eight digits
Estimate(d) ==
    Only({<<q \div 100000000, (q \div 10000) % 10000, q % 10000, 0, 0, 0>>
          : q \in {Only({DivDigits(100000000 % d8, d8, 8, 100000000 \div d8)
                         : d8 \in {(d[1] * 10000 + d[2]) * 10000 + d[3]}})}})
\* one step of Newton's iteration for 1 / d: y * (2 - d * y)
Newton(d, y) == Only({Mul(v, Sub(<<2>> \o Zeros(Work), Mul(d, v))) : v \in {y}})
\* 1 / d for 1 <= d <= 2
Reciprocal(d) == Only({Newton(v, Newton(v, Estimate(v))) : v \in {d}})

\* 1 / (1 + np.exp(-m)) for the magnitude m of a float, at the working
\* precision
Logistic(m) == Reciprocal(Add(OneW, ExpNeg(m)))

\* the probabilities 0, 0.5, 1 and their neighbours
ProbZero == <<0, 0, 0, 0>>
Least == <<0, 0, 0, 1>>
BelowHalf == <<0, 4999, 9999, 9999>>
Half == <<0, 5000, 0, 0>>
AboveHalf == <<0, 5000, 0, 1>>
Greatest == <<0, 9999, 9999, 9999>>
ProbOne == <<1, 0, 0, 0>>
Clamp(x, lo, hi) == IF Less(x, lo) THEN lo ELSE IF Less(hi, x) THEN hi ELSE x
\* a number of the working precision to the nearest 10^-12
ToProb(x) == Trim(Pad(Round(x, Work - ProbLimbs), ProbLimbs + 1), ProbLimbs + 1)

\* the magnitudes of the dot products from which 1 + np.exp(-z) is 1.0
\* (53 * np.log(2) = 36.7368005696...) and down from which np.exp(-z) is
\* inf (the logarithm of the greatest double, 709.7827128933...)
SaturatesHigh == <<36, 7368, 57>>
SaturatesLow == <<709, 7827, 1290>>
High(z) == ~z.neg /\ ~Less(z.mag, SaturatesHigh)
Low(z) == z.neg /\ ~Less(z.mag, SaturatesLow)

\* sigmoid(z) for lg = Logistic(z.mag)
SigmoidFrom(z, lg) ==
    IF High(z) THEN ProbOne
    ELSE IF Low(z) THEN ProbZero
    ELSE IF IsZero(z.mag) THEN Half
    ELSE IF ~z.neg THEN Clamp(ToProb(lg), AboveHalf, Greatest)
    ELSE Clamp(ToProb(Sub(OneW, lg)), Least, BelowHalf)

\* 1 / (1 + np.exp(-z)) in IEEE doubles for a float z, to the nearest
\* 10^-12.  From z = 36.73680057 on, 1 + exp(-z) rounds to 1 and the result
\* is exactly 1.0; from z = -709.78271290 down, exp(-z) overflows to inf and
\* the result is exactly 0.0; at z = 0 it is exactly 0.5; for every other z
\* the double is strictly between 0 and 1 and strictly on the side of 0.5
\* that z is on, and so is the value here: where the nearest 10^-12 is 0,
\* 0.5 or 1, the value is their neighbour.
sigmoid(z) == Only({SigmoidFrom(x, Logistic(x.mag)) : x \in {z}})

\* x millionths at the working precision
MillionthsToWork(x) ==
    <<x \div 1000000, (x \div 100) % 10000, (x % 100) * 100, 0, 0, 0>>

RECURSIVE LogDigitFrom(_, _, _)
LogDigitFrom(r, table, d) ==
    IF d + 1 = Len(table) \/ Less(table[d + 2], r) THEN d
    ELSE LogDigitFrom(r, table, d + 1)
\* the greatest digit d with table[d + 1] >= r
LogDigit(r, table) == LogDigitFrom(r, table, 0)

RECURSIVE NegLogFrom(_, _, _)
NegLogFrom(r, k, x) ==
    IF k > 6
    THEN Only({Add(Add(MillionthsToWork(x), dl),
                   Add(DivInt(d2, 2), DivInt(Mul(d2, dl), 3)))
               : <<dl, d2>> \in {Only({<<v, Mul(v, v)>> : v \in {Sub(OneW, r)}})}})
    ELSE Only({NegLogFrom(IF d = 0 THEN v ELSE Mul(v, GrowTable(k)[d + 1]),
                          k + 1, x + d * Pow10(6 - k))
               : <<v, d>> \in {Only({<<rr, LogDigit(rr, ShrinkTable(k))>>
                                     : rr \in {r}})}})
\* -np.log(v) for exp(-3) < v <= 1: the decimal digits of the result from the
\* k-th down to millionths, v being multiplied by np.exp of each, then
\* t + t^2 / 2 + t^3 / 3 for what is left, 1 - t
NegLog(v, k) == NegLogFrom(v, k, 0)

\* the magnitude of the dot products from which the double 1 - sigmoid(z)
\* differs from its exact value by more than a loss shows
Coarse == <<8, 0, 0>>

\* decimal digits of a limb
LimbDigits(v) ==
    IF v >= 1000 THEN 4 ELSE IF v >= 100 THEN 3 ELSE IF v >= 10 THEN 2 ELSE 1

\* a whole k >= 1 as <<n, k / 10^n>> for its count n of decimal digits
Mantissa(k) ==
    Only({<<4 * (Len(t) - 1) + LimbDigits(t[1]),
            MulInt(<<0>> \o t \o Zeros(Work - Len(t)), Pow10(4 - LimbDigits(t[1])))>>
          : t \in {Trim(k, 1)}})

\* 1 - sigmoid(z) in units of 2^-53, as the doubles of line 32 give it for
\* a z of magnitude Coarse <= z < SaturatesHigh: with m the nearest whole number to
\* 2^52 * np.exp(-z), 1 + np.exp(-z) is the double (2^52 + m) / 2^52 and its
\* reciprocal the nearest multiple of 2^-53 to 2^52 / (2^52 + m)
Complement(z) ==
    Only({Sub(MulInt(m, 2),
              FromInt(DivFloor(Add(MulInt(Times(m, m), 4), Add(TwoTo52, m)),
                               MulInt(Add(TwoTo52, m), 2))))
          : m \in {Round(Mul(ExpUnits52[z[1] + 1], ExpFrac(z)), Work)}})

\* -np.log(1 - sigmoid(z)) for Coarse <= z < SaturatesHigh
CoarseLoss(z) ==
    Only({Sub(Add(Ln2Times53, NegLog(Trim(p[2], Work + 1), 0)), MulInt(Ln10, p[1]))
          : p \in {Mantissa(Complement(z))}})

\* a float: nan, inf, -inf, or a sign and a magnitude in limbs
NaN == [kind |-> "nan", neg |-> FALSE, mag |-> <<>>]
Inf(neg) == [kind |-> "inf", neg |-> neg, mag |-> <<>>]
Num(neg, mag) == [kind |-> "num", neg |-> neg /\ ~IsZero(mag), mag |-> mag]
\* a float from its value in hundredths
Hundredths(n) == Num(n < 0, <<Abs(n) \div 100, (Abs(n) % 100) * 100, 0>>)
\* a loss, a loss delta or error_diff from its value in hundredths
LossHundredths(n) ==
    Num(n < 0, <<Abs(n) \div 100, (Abs(n) % 100) * 100>> \o Zeros(LossLimbs - 1))
\* limbs as the magnitude of a float
ToFloat(x) == Trim(Pad(x, FloatLimbs + 1), FloatLimbs + 1)

\* -x, x + y, x - y, abs(x) and x < y, x > y of IEEE floats: nan propagates
\* and compares false, inf - inf is nan
FNeg(x) ==
    IF x.kind = "num" THEN Num(~x.neg, x.mag)
    ELSE IF x.kind = "inf" THEN Inf(~x.neg)
    ELSE x
FAdd(x, y) ==
    IF x.kind = "nan" \/ y.kind = "nan" THEN NaN
    ELSE IF x.kind = "inf" THEN (IF y.kind = "inf" /\ y.neg # x.neg THEN NaN ELSE x)
    ELSE IF y.kind = "inf" THEN y
    ELSE IF x.neg = y.neg THEN Num(x.neg, Add(x.mag, y.mag))
    ELSE IF Less(x.mag, y.mag) THEN Num(y.neg, Sub(y.mag, x.mag))
    ELSE Num(x.neg, Sub(x.mag, y.mag))
FSub(x, y) == FAdd(x, FNeg(y))
FAbs(x) == IF x.kind = "nan" THEN x ELSE [x EXCEPT !.neg = FALSE]
FLt(x, y) ==
    /\ x.kind # "nan"
    /\ y.kind # "nan"
    /\ IF x.kind = "inf" THEN x.neg /\ ~(y.kind = "inf" /\ y.neg)
       ELSE IF y.kind = "inf" THEN ~y.neg
       ELSE IF x.neg # y.neg THEN x.neg
       ELSE IF x.neg THEN Less(y.mag, x.mag)
       ELSE Less(x.mag, y.mag)
FGt(x, y) == FLt(y, x)
\* x * n for a float x that is a number and an integer n
FScale(x, n) == Num(x.neg # (n < 0), MulInt(x.mag, Abs(n)))

\* one row's term of the loss, -T * np.log(y) - (1 - T) * np.log(1 - y) for
\* y = sigmoid(z) and lg = Logistic(z.mag), at the working precision: with
\* m = z.mag, -np.log(lg) where the label is on the side of z, and
\* m - np.log(lg) or, from Coarse on, CoarseLoss(m) where it is not.
\* np.log(0) is -inf and 0 * inf is nan: a y of exactly 1.0 gives nan with
\* T = 1 and inf with T = 0, a y of exactly 0.0 gives inf with T = 1 and nan
\* with T = 0.
TermFrom(T, z, lg) ==
    IF High(z) THEN IF T = 1 THEN NaN ELSE Inf(FALSE)
    ELSE IF Low(z) THEN IF T = 1 THEN Inf(FALSE) ELSE NaN
    ELSE IF IsZero(z.mag) \/ (T = 1) = ~z.neg THEN Num(FALSE, NegLog(lg, 1))
    ELSE IF T = 1 \/ Less(z.mag, Coarse)
         THEN Num(FALSE, Add(z.mag \o Zeros(Work - FloatLimbs), NegLog(lg, 1)))
    ELSE Num(FALSE, CoarseLoss(z.mag))

\* a row's probability and its term of the loss
RowOut(T, z) ==
    Only({[y |-> SigmoidFrom(z, lg), term |-> TermFrom(T, z, lg)]
          : lg \in {Logistic(z.mag)}})

RECURSIVE SumTerms(_, _, _)
\* the sum of the terms from the i-th on, after acc
SumTerms(terms, i, acc) ==
    IF i > Len(terms) THEN acc ELSE SumTerms(terms, i + 1, FAdd(acc, terms[i]))
\* the sum of the rows' terms to the nearest 10^-16
Loss(terms) ==
    Only({IF s.kind = "num"
          THEN Num(FALSE, Trim(Pad(Round(s.mag, Work - LossLimbs), LossLimbs + 1),
                               LossLimbs + 1))
          ELSE s
          : s \in {SumTerms(terms, 1, Num(FALSE, Zero))}})


\* x.dot(v) of a row x of integers and an array v of floats of equal length
RECURSIVE Dot(_, _)
Dot(x, v) ==
    IF x = <<>> THEN Hundredths(0)
    ELSE FAdd(FScale(Head(v), Head(x)), Dot(Tail(x), Tail(v)))

\* np.concatenate((ones, X), axis=1): a leading column of 1s
RECURSIVE WithOnes(_)
WithOnes(rows) ==
    IF rows = <<>> THEN <<>>
    ELSE <<<<1>> \o Head(rows)>> \o WithOnes(Tail(rows))

Augment(X) == [cols |-> X.cols + 1, rows |-> WithOnes(X.rows)]

\* sigmoid(X.dot(v)) for the rows of X: one probability per row
RECURSIVE SigmoidOfDots(_, _)
SigmoidOfDots(rows, v) ==
    IF rows = <<>> THEN <<>>
    ELSE <<sigmoid(Dot(Head(rows), v))>> \o SigmoidOfDots(Tail(rows), v)

\* the whole part of s * d for a probability s and a natural d below 200000
WholeOfProduct(s, d) ==
    s[1] * d + (s[2] * d + (s[3] * d + (s[4] * d) \div Base) \div Base) \div Base

\* a probability s is below the threshold p: s * p.den < p.num
ProbLess(s, p) == WholeOfProduct(s, p.den) < p.num

\* a probability s is the threshold p (for Threshold_Leq)
ProbIs(s, p) ==
    LET c4 == s[4] * p.den
        c3 == s[3] * p.den + c4 \div Base
        c2 == s[2] * p.den + c3 \div Base
    IN  /\ WholeOfProduct(s, p.den) = p.num
        /\ c4 % Base = 0
        /\ c3 % Base = 0
        /\ c2 % Base = 0

\* line 104 with <= for <
RECURSIVE Threshold_Leq(_, _)
Threshold_Leq(probs, p) ==
    IF probs = <<>> THEN <<>>
    ELSE <<IF ~ProbLess(Head(probs), p) /\ ~ProbIs(Head(probs), p)
           THEN 1 ELSE 0>> \o Threshold_Leq(Tail(probs), p)

\* line 104 with the two labels exchanged
RECURSIVE Threshold_Swapped(_, _)
Threshold_Swapped(probs, p) ==
    IF probs = <<>> THEN <<>>
    ELSE <<IF ProbLess(Head(probs), p) THEN 1 ELSE 0>>
         \o Threshold_Swapped(Tail(probs), p)

\* [0 if i < p else 1 for i in probs] (line 104)
RECURSIVE Threshold(_, _)
Threshold(probs, p) ==
    IF probs = <<>> THEN <<>>
    ELSE <<IF ProbLess(Head(probs), p) THEN 0 ELSE 1>> \o Threshold(Tail(probs), p)

(***************************************************************************)
(* __init__ (lines 18-27).                                                 *)
(***************************************************************************)
\* the values of error_diff: -0.5, 0, 0.5 and 1
ErrorDiffs ==
    {LossHundredths(-50), LossHundredths(0), LossHundredths(50), LossHundredths(100)}
\* learning rates in hundredths: 0.01 (the default) and 100.0
LearningRates == {1, 10000}

\* Logistic_regression(max_iter, a, error_diff, show)
Construct(mi, lr, ed, sh) ==
    /\ D = None
    /\ trained = FALSE
    /\ max_iter = mi
    /\ a = lr
    /\ w = None
    /\ N = None
    /\ error_diff = ed
    /\ show = sh
    /\ pc = "idle"
    /\ w_init = None
    /\ lw = None
    /\ y_prob = None
    /\ iterations = 0
    /\ e = LossHundredths(0)
    /\ e_prev = LossHundredths(0)
    /\ updates = 0
    /\ op = "none"
    /\ args = <<>>
    /\ result = None
    /\ out = <<>>

\* Logistic_regression(max_iter=2, error_diff=0): fit does one update
Init == Construct(2, 1, LossHundredths(0), FALSE)

\* a model that prints, with either learning rate and any max_iter and
\* error_diff
FitInit ==
    \E mi \in 1..MaxIter, lr \in LearningRates, ed \in ErrorDiffs :
        Construct(mi, lr, ed, TRUE)

(***************************************************************************)
(* fit (lines 40-89).                                                      *)
(***************************************************************************)
\* The draws of np.random.randn(2) are inputs, each a pair of floats; every
\* specification takes them from a set chosen so that each of its calls
\* takes, under one draw or another of the set, the courses it was seen to
\* take in the program under random normal draws.
\*
\* Draws, for the models that predict (EvalSpec): the entries 0.5 and 2.0
\* of either sign.  The lists of labels predict returns under normal draws
\* for a call of EvalSpec, it returns under these.
Draws == [1..2 -> {Hundredths(-200), Hundredths(-50), Hundredths(50), Hundredths(200)}]

\* SmallDraws, for the models of Spec and RocSpec: (0.05, 0.05),
\* (-1.5, -1.75) and (0.75, 2.5).  The lists of labels predict returns and
\* the AUCs that ROC computes under normal draws for a call of these
\* specifications, they give under these.
SmallDraws ==
    {<<Hundredths(5), Hundredths(5)>>,
     <<Hundredths(-150), Hundredths(-175)>>,
     <<Hundredths(75), Hundredths(250)>>}

\* FitDraws, for the calls of FitSpec.  What a fit call prints and how many
\* updates it makes depend on the draw, most of all with a = 100.  For
\* every call of FitSpec these draws give the courses the call takes under
\* normal draws: the number of updates, the message after the loop, and
\* whether the last loss and e are numbers, nan or inf.  (-0.04, -0.01) is
\* a draw for which the dot product of the row (1, -4) with the weights
\* vanishes, and (-0.01, -0.01) and (-0.01, 0.01) are draws for which a dot
\* product is small: with a = 100 the weights then stay small through both
\* updates.  (0.4, 3.9) is a draw with an entry above 3.5: with it the
\* loss of the rows (-4), (1) under the labels 0, 0 stays finite.
FitDraws ==
    {<<Hundredths(-25), Hundredths(5)>>,
     <<Hundredths(40), Hundredths(390)>>,
     <<Hundredths(-310), Hundredths(-125)>>,
     <<Hundredths(295), Hundredths(130)>>,
     <<Hundredths(5), Hundredths(45)>>,
     <<Hundredths(-1), Hundredths(1)>>,
     <<Hundredths(-1), Hundredths(-1)>>,
     <<Hundredths(-4), Hundredths(-1)>>}

\* the draws of np.random.randn(d) among draws
Randn(d, draws) == {r \in draws : Len(r) = d}

\* 0.01 * np.random.randn(self.D + 1), each entry to the nearest 10^-8
RECURSIVE InitialWeightsFrom(_, _)
InitialWeightsFrom(r, i) ==
    IF i > Len(r) THEN <<>>
    ELSE <<Num(r[i].neg, ToFloat(Round(MulInt(r[i].mag, 100), 1)))>>
         \o InitialWeightsFrom(r, i + 1)
InitialWeights(r) == InitialWeightsFrom(r, 1)

RECURSIVE OutputsFrom(_, _, _, _)
OutputsFrom(rows, Y, v, i) ==
    IF i > Len(rows) THEN <<>>
    ELSE <<RowOut(Y[i], Dot(rows[i], v))>> \o OutputsFrom(rows, Y, v, i + 1)
\* the probability and the loss term of every row of X for the weights v
\* (lines 55 and 57, 71 and 72), X with the column of ones
Outputs(X, Y, v) == OutputsFrom(X.rows, Y, v, 1)
\* self.sigmoid(X.dot(w)) (lines 55 and 71)
Probabilities(outs) == [i \in 1..Len(outs) |-> outs[i].y]
\* cross_entropy (lines 35-37) of the labels and those probabilities: the
\* sum of the rows' terms
cross_entropy(outs) == Loss([i \in 1..Len(outs) |-> outs[i].term])

\* Y[i] - y_prob[i]: 1 - y_prob[i] for the label 1, -y_prob[i] for the
\* label 0, a signed number of 10^-12
Residual(T, y) ==
    IF T = 1 THEN Num(FALSE, Sub(ProbOne, y)) ELSE Num(TRUE, y)

\* the sum over the rows from i on of rows[i][j] * (Y[i] - probs[i])
RECURSIVE GradientEntry(_, _, _, _, _)
GradientEntry(rows, Y, probs, j, i) ==
    IF i > Len(rows) THEN Num(FALSE, ProbZero)
    ELSE FAdd(FScale(Residual(Y[i], probs[i]), rows[i][j]),
              GradientEntry(rows, Y, probs, j, i + 1))

\* X.T.dot(Y - y_prob) (line 67) for the X with the column of ones, one
\* entry per weight
RECURSIVE GradientFrom(_, _, _, _)
GradientFrom(X, Y, probs, j) ==
    IF j > X.cols THEN <<>>
    ELSE <<GradientEntry(X.rows, Y, probs, j, 1)>>
         \o GradientFrom(X, Y, probs, j + 1)
Gradient(X, Y, probs) == GradientFrom(X, Y, probs, 1)

\* self.a * g for a in hundredths, each entry to the nearest 10^-8
RECURSIVE WChangeFrom(_, _)
WChangeFrom(g, j) ==
    IF j > Len(g) THEN <<>>
    ELSE <<Num(g[j].neg,
               ToFloat(Round(MulInt(MulInt(g[j].mag, a), 100), ProbLimbs - 1)))>>
         \o WChangeFrom(g, j + 1)
WChange(g) == WChangeFrom(g, 1)

RECURSIVE AddFrom(_, _, _)
AddFrom(v, change, j) ==
    IF j > Len(v) THEN <<>>
    ELSE <<FAdd(v[j], change[j])>> \o AddFrom(v, change, j + 1)
\* w += w_change (lines 67-68) for the X and Y fit was called with
Updated(X, Y, v, probs) ==
    AddFrom(v, WChange(Gradient(Augment(X), Y, probs)), 1)

\* the condition of the while loop with abs(e) for e
LoopCond_Abs == iterations < max_iter /\ FGt(FAbs(e), error_diff)

\* the condition of the while loop with <= for <
LoopCond_Leq == iterations <= max_iter /\ FGt(e, error_diff)

\* the condition of the while loop (line 64)
LoopCond == iterations < max_iter /\ FGt(e, error_diff)

\* line 57 raises: cross_entropy's T.dot(np.log(y_pred)) on arrays of
\* different lengths.  The weights were drawn (line 51), nothing was printed
\* and no field but N and D was written.
FitRaises ==
    /\ result' = Raise("ValueError", "cross_entropy")
    /\ out' = <<>>
    /\ pc' = "idle"
    /\ w_init' = None
    /\ lw' = None
    /\ y_prob' = None
    /\ iterations' = 0
    /\ e' = LossHundredths(0)
    /\ e_prev' = LossHundredths(0)
    /\ updates' = 0

\* lines 51-62 with the draw r of randn; w_init keeps the weights of line 51
FitEnters(X, Y, r) ==
    /\ \E v \in {InitialWeights(r)} :
         /\ w_init' = Arr(v)
         /\ lw' = Arr(v)
         /\ \E outs \in {Outputs(Augment(X), Y, v)} :
              /\ y_prob' = Arr(Probabilities(outs))
              /\ e_prev' = cross_entropy(outs)
    /\ iterations' = 1
    /\ e' = LossHundredths(100)
    /\ updates' = 0
    /\ result' = [kind |-> "running"]
    /\ out' = IF show THEN <<"Starting fitting process!", "Cross entropy is">>
                      ELSE <<>>
    /\ pc' = "loop"

\* fit with self.trained = False at its entry
FitStart_Untrains(n, draws, feats) ==
    /\ pc = "idle"
    /\ op = "none"
    /\ \E X \in Matrices(n, FitDims, feats), Y \in LabelVectors(n) :
         /\ N' = PyInt(Rows(X))
         /\ D' = PyInt(X.cols)
         /\ op' = "fit"
         /\ args' = <<X, Y>>
         /\ \E r \in Randn(X.cols + 1, draws) :
              IF Len(Y) # Rows(X) THEN FitRaises ELSE FitEnters(X, Y, r)
    /\ trained' = FALSE
    /\ UNCHANGED <<w, config>>

\* lines 44-62: the shapes, the initial weights, the probabilities and the
\* first loss.  X.dot(w) is defined for every X (w has X.shape[1] + 1
\* entries); the first loss is not when len(Y) is not X.shape[0].
FitStart(n, draws, feats) ==
    /\ pc = "idle"
    /\ op = "none"
    /\ \E X \in Matrices(n, FitDims, feats), Y \in LabelVectors(n) :
         /\ N' = PyInt(Rows(X))
         /\ D' = PyInt(X.cols)
         /\ op' = "fit"
         /\ args' = <<X, Y>>
         /\ \E r \in Randn(X.cols + 1, draws) :
              IF Len(Y) # Rows(X) THEN FitRaises ELSE FitEnters(X, Y, r)
    /\ UNCHANGED <<trained, w, config>>

\* lines 67-77: the weights, the probabilities and the loss after one more
\* update
FitUpdates ==
    \E v \in {Updated(args[1], args[2], lw.v, y_prob.v)} :
      \E outs \in {Outputs(Augment(args[1]), args[2], v)} :
        \E e_new \in {cross_entropy(outs)} :
          /\ lw' = Arr(v)
          /\ y_prob' = Arr(Probabilities(outs))
          /\ e' = FSub(e_prev, e_new)
          /\ e_prev' = e_new

\* one iteration of the loop that also stores the weights in self.w
FitIter_WritesSelf ==
    /\ pc = "loop"
    /\ LoopCond
    /\ FitUpdates
    /\ w' = lw'
    /\ out' = out
    /\ iterations' = iterations + 1
    /\ updates' = updates + 1
    /\ UNCHANGED <<trained, N, D, config, pc, w_init, op, args, result>>

\* lines 64-81: one iteration of the loop
FitIter ==
    /\ pc = "loop"
    /\ LoopCond
    /\ FitUpdates
    /\ out' = IF iterations % 20 = 0 /\ show
              THEN out \o <<"Cross entropy is", "Iteration :">>
              ELSE out
    /\ iterations' = iterations + 1
    /\ updates' = updates + 1
    /\ UNCHANGED <<self, pc, w_init, op, args, result>>

\* lines 83-89: the loop is left, the model becomes trained
FitEnd ==
    /\ pc = "loop"
    /\ ~LoopCond
    /\ out' = IF show /\ FLt(e, error_diff)
              THEN out \o <<"Cross entropy difference reached threshold.">>
              ELSE IF iterations < max_iter
                   THEN out \o <<"Gradient decent reached max iterations.">>
                   ELSE out
    /\ trained' = TRUE
    /\ w' = lw
    /\ lw' = None
    /\ y_prob' = None
    /\ pc' = "idle"
    /\ result' = None
    /\ UNCHANGED <<N, D, config, w_init, iterations, e, e_prev, updates, op, args>>

(***************************************************************************)
(* The other methods.  Each is one call on the idle instance: op, args,    *)
(* result and out record the call, what it returned or raised and what it  *)
(* printed, until the caller goes on (Return).                             *)
(***************************************************************************)
Call(o, ar, res, printed) ==
    /\ pc = "idle"
    /\ op = "none"
    /\ op' = o
    /\ args' = ar
    /\ result' = res
    /\ out' = printed
    /\ UNCHANGED <<self, fitLocals>>

\* the caller has the result of the last call and goes on; the frame of the
\* call is gone
Return ==
    /\ pc = "idle"
    /\ op # "none"
    /\ op' = "none"
    /\ args' = <<>>
    /\ result' = None
    /\ out' = <<>>
    /\ w_init' = None
    /\ lw' = None
    /\ y_prob' = None
    /\ iterations' = 0
    /\ e' = LossHundredths(0)
    /\ e_prev' = LossHundredths(0)
    /\ updates' = 0
    /\ UNCHANGED <<self, pc>>

NotTrainedMsg == <<"Model not trained.">>

\* get_coef (lines 91-95)
get_coef == IF trained THEN w ELSE None

GetCoef ==
    /\ op = "none"
    /\ Call("get_coef", <<>>, get_coef,
            IF trained THEN <<>> ELSE NotTrainedMsg)

\* y_probab (lines 97-98).  With self.w = None, X.dot(None) multiplies
\* elementwise: on an X without rows nothing is multiplied and the result is
\* an empty array, on any other X a float is multiplied by None, a
\* TypeError.  With an array self.w, X.dot raises ValueError unless X has as
\* many columns as w has entries.
y_probab(X) ==
    IF w = None
    THEN IF Rows(X) = 0 THEN Empty2d(X.cols) ELSE Raise("TypeError", "y_probab")
    ELSE IF X.cols # Len(w.v) THEN Raise("ValueError", "y_probab")
    ELSE Arr(SigmoidOfDots(X.rows, w.v))

YProbab(n) ==
    /\ op = "none"
    /\ \E X \in Matrices(n, AnyDims, Features) :
         Call("y_probab", <<X>>, y_probab(X), <<>>)

\* line 104 for the value y_probab gave
predictFrom(probs, p) ==
    IF IsRaise(probs) THEN probs ELSE List(Threshold(probs.v, p))

\* predict (lines 100-106)
predict(X, p) ==
    IF trained THEN predictFrom(y_probab(Augment(X)), p) ELSE None

Predict(n, dims) ==
    /\ op = "none"
    /\ \E X \in Matrices(n, dims, Features), p \in Thresholds :
         Call("predict", <<X, p>>, predict(X, p),
              IF trained THEN <<>> ELSE NotTrainedMsg)

\* confusion_matrix (lines 108-128).  Y is the value predict returned or a
\* list of labels: None[i] raises TypeError, a short list IndexError.
RECURSIVE CountFrom(_, _, _, _)
CountFrom(T, Y, i, c) ==
    IF i > Len(T) THEN c
    ELSE IF Y.kind = "None" THEN Raise("TypeError", "confusion_matrix")
    ELSE IF i > Len(Y.v) THEN Raise("IndexError", "confusion_matrix")
    ELSE CountFrom(T, Y, i + 1,
            IF T[i] = 0
            THEN IF Y.v[i] = 0 THEN [c EXCEPT !.TP = @ + 1]
                               ELSE [c EXCEPT !.FN = @ + 1]
            ELSE IF Y.v[i] = 1 THEN [c EXCEPT !.TN = @ + 1]
                               ELSE [c EXCEPT !.FP = @ + 1])

\* confusion_matrix returning (TP, FN, FP, TN) and [[TP, FP], [FN, TN]]
confusion_matrix_Transposed(T, Y, values) ==
    LET c == CountFrom(T, Y, 1, [TP |-> 0, FP |-> 0, TN |-> 0, FN |-> 0])
    IN  IF c \in [TP : Nat, FP : Nat, TN : Nat, FN : Nat]
        THEN IF values THEN Tuple(<<c.TP, c.FN, c.FP, c.TN>>)
                       ELSE Arr(<<<<c.TP, c.FP>>, <<c.FN, c.TN>>>>)
        ELSE c

confusion_matrix(T, Y, values) ==
    LET c == CountFrom(T, Y, 1, [TP |-> 0, FP |-> 0, TN |-> 0, FN |-> 0])
    IN  IF c \in [TP : Nat, FP : Nat, TN : Nat, FN : Nat]
        THEN IF values THEN Tuple(<<c.TP, c.FP, c.FN, c.TN>>)
                       ELSE Arr(<<<<c.TP, c.FN>>, <<c.FP, c.TN>>>>)
        ELSE c

ConfusionMatrix(n) ==
    /\ op = "none"
    /\ \E T \in LabelVectors(n), Y \in LabelVectors(n), values \in BOOLEAN :
         Call("confusion_matrix", <<T, Y, values>>,
              confusion_matrix(T, List(Y), values), <<>>)

\* metrics (lines 130-138): Python's / raises ZeroDivisionError on ints and
\* floats alike
metrics(T, Y) ==
    LET cm == confusion_matrix(T, Y, TRUE)
        TP == cm.v[1]
        FP == cm.v[2]
        FN == cm.v[3]
        TN == cm.v[4]
    IN  IF IsRaise(cm) THEN cm
        ELSE IF \/ TP + FN = 0
                \/ TP + FP = 0
                \/ 2 * TP + FP + FN = 0
                \/ TN + FP = 0
                \/ TN + FN = 0
                \/ 2 * TN + FN + FP = 0
                \/ TN + TP + FN + FP = 0
        THEN Raise("ZeroDivisionError", "metrics")
        ELSE [kind |-> "dict",
              class_1 |-> [recall |-> Frac(TP, TP + FN),
                           precision |-> Frac(TP, TP + FP),
                           F1 |-> Frac(2 * TP, 2 * TP + FP + FN)],
              class_2 |-> [recall |-> Frac(TN, TN + FP),
                           precision |-> Frac(TN, TN + FN),
                           F1 |-> Frac(2 * TN, 2 * TN + FN + FP)],
              accuracy |-> Frac(TN + TP, TN + TP + FN + FP)]

Metrics(n) ==
    /\ op = "none"
    /\ \E T \in LabelVectors(n), Y \in LabelVectors(n) :
         Call("metrics", <<T, Y>>, metrics(T, List(Y)), <<>>)

\* ROC (lines 141-167)
divisions == 100

\* np.linspace(0, 1, num=divisions)[k]
Linspace(k) == Frac(k, divisions - 1)

\* lines 149-154: the body of the sweep's loop for the threshold p: the pair
\* appended to the two lists, or the exception raised.  self.predict(X, p)
\* computes the same probabilities from X and self.w on every pass: probs is
\* that array, and y_predict is what predict returns.
SweepStep(probs, T, p) ==
    LET y_predict == IF trained THEN predictFrom(probs, p) ELSE None
        cm == IF IsRaise(y_predict) THEN y_predict
              ELSE confusion_matrix(T, y_predict, TRUE)
        TP == cm.v[1]
        FP == cm.v[2]
        FN == cm.v[3]
        TN == cm.v[4]
    IN  IF IsRaise(cm) THEN cm
        ELSE IF TP + FN = 0 \/ TN + FP = 0
             THEN Raise("ZeroDivisionError", "ROC")
        ELSE [kind |-> "point",
              recall |-> Frac(TP, TP + FN),
              specif_minus |-> FracSub(Frac(1, 1), Frac(TN, TN + FP))]

\* lines 148-154: the results of the iterations lo..hi of the sweep, in
\* sweep order (the k-th iteration has the threshold Linspace(k - 1))
RECURSIVE SweepSteps(_, _, _, _)
SweepSteps(probs, T, lo, hi) ==
    IF lo = hi THEN <<SweepStep(probs, T, Linspace(lo - 1))>>
    ELSE LET mid == (lo + hi) \div 2
         IN  SweepSteps(probs, T, lo, mid) \o SweepSteps(probs, T, mid + 1, hi)

\* the first iteration that raises ends the sweep
SweepOf(probs, T) ==
    LET steps == SweepSteps(probs, T, 1, divisions)
        raising == {k \in 1..divisions : IsRaise(steps[k])}
    IN  IF raising # {}
        THEN steps[CHOOSE k \in raising : \A j \in raising : k <= j]
        ELSE [kind |-> "lists",
              recall |-> [k \in 1..divisions |-> steps[k].recall],
              specif_minus |-> [k \in 1..divisions |-> steps[k].specif_minus]]

Sweep(X, T) ==
    Only({SweepOf(probs, T)
          : probs \in {IF trained THEN y_probab(Augment(X)) ELSE None}})

\* lines 158-160: the trapezoidal rule, the terms lo..hi of the sum.  The
\* fractions are exact, so the sum is split in halves instead of added left
\* to right.
RECURSIVE AucTerms(_, _, _, _)
AucTerms(recall, specif_minus, lo, hi) ==
    IF lo > hi THEN Frac(0, 1)
    ELSE IF lo = hi
    THEN FracMul(FracMul(FracAdd(recall[lo], recall[lo + 1]),
                         FracSub(specif_minus[lo + 1], specif_minus[lo])),
                 Frac(1, 2))
    ELSE LET mid == (lo + hi) \div 2
         IN  FracAdd(AucTerms(recall, specif_minus, lo, mid),
                     AucTerms(recall, specif_minus, mid + 1, hi))

Auc(recall, specif_minus) ==
    AucTerms(recall, specif_minus, 1, Len(recall) - 1)

\* what ROC hands to plt.plot: the two lists and the AUC of the label
ROCResult(X, T) ==
    LET s == Sweep(X, T)
    IN  IF IsRaise(s) THEN s
        ELSE [kind |-> "plot", recall |-> s.recall,
              specif_minus |-> s.specif_minus,
              auc |-> Auc(s.recall, s.specif_minus)]

\* ROC is called with a feature matrix and its label vector
ROC(n) ==
    /\ op = "none"
    /\ \E X \in Matrices(n, FitDims, Features) :
       \E T \in SeqsOfLen(Labels, Rows(X)) :
         Call("ROC", <<X, T>>, ROCResult(X, T),
              IF trained THEN <<>> ELSE NotTrainedMsg)

(***************************************************************************)
(* The specifications.                                                     *)
(***************************************************************************)
\* every sequence of calls on a model constructed with max_iter = 2 and
\* error_diff = 0
Next ==
    \/ FitStart(MaxRows, SmallDraws, Features)
    \/ FitIter
    \/ FitEnd
    \/ GetCoef
    \/ YProbab(MaxRows)
    \/ Predict(MaxRows, AnyDims)
    \/ ConfusionMatrix(MaxRows)
    \/ Metrics(MaxRows)
    \/ ROC(MaxRows)
    \/ Return

Spec == Init /\ [][Next]_vars

\* one call of fit on a new model of any max_iter and error_diff and either
\* learning rate, with features of both signs.  The loop is left to run:
\* the program does nothing else meanwhile.
FitNext ==
    \/ FitStart(MaxFitRows, FitDraws, SignedFeatures)
    \/ FitIter
    \/ FitEnd

\* a step of the loop: FitIter adds one to iterations and FitEnd leaves the
\* loop, and one of the two can be taken in every state of the loop
LoopStep ==
    /\ pc = "loop"
    /\ pc' \in {"loop", "idle"}
    /\ iterations' \in {iterations, iterations + 1}
    /\ <<pc', iterations'>> # <<pc, iterations>>

\* the interpreter goes on executing a call that is in its loop
FitSpec == FitInit /\ [][FitNext]_vars /\ WF_<<pc, iterations>>(LoopStep)

\* Logistic_regression(max_iter=2, a=a, error_diff=0) for the learning rates
\* 0.01, 4.5 and 100.0 (in hundredths).  After one update the weights are
\* near 0, of a size near 2.25 or near 50: the probabilities lie near 0.5,
\* spread between 0 and 1 (on either side of the thresholds), or are
\* exactly 1.0.
EvalInit ==
    \E lr \in {1, 450, 10000} : Construct(2, lr, LossHundredths(0), FALSE)

\* a model is fitted once and then asked to predict
EvalNext ==
    \/ ~trained /\ FitStart(MaxRows, Draws, Features)
    \/ FitIter
    \/ FitEnd
    \/ Predict(MaxEvalRows, EvalDims)
    \/ Return

EvalSpec == EvalInit /\ [][EvalNext]_vars

\* Logistic_regression(max_iter=2, a=a, error_diff=0) for the learning rates
\* 0.01 and 4.5 (in hundredths)
RocInit ==
    \E lr \in {1, 450} : Construct(2, lr, LossHundredths(0), FALSE)

\* a model is fitted once and then its ROC is drawn
RocNext ==
    \/ ~trained /\ FitStart(MaxRows, SmallDraws, Features)
    \/ FitIter
    \/ FitEnd
    \/ ROC(MaxRocRows)
    \/ Return

RocSpec == RocInit /\ [][RocNext]_vars

\* confusion_matrix and metrics read no field of the model
PureInit == Construct(MaxIter, 1, LossHundredths(0), FALSE)

PureNext ==
    \/ ConfusionMatrix(MaxLabels)
    \/ Metrics(MaxLabels)
    \/ Return

PureSpec == PureInit /\ [][PureNext]_vars


(***************************************************************************)
(* The claims.                                                             *)
(***************************************************************************)
\* the last call was fit and it ran to completion
FitCompleted == op = "fit" /\ result = None
\* the step that leaves fit's loop
FitExit == pc = "loop" /\ pc' = "idle"
Range(s) == {s[i] : i \in 1..Len(s)}
FracLess(x, y) == x.num * y.den < y.num * x.den

\* C1 (as claimed): on a model on which fit has not completed, predict,
\* y_probab and get_coef end in an UntrainedModelError and hand the caller
\* no computed or null-like result.
C1_UntrainedCallRaises ==
    (op \in {"predict", "y_probab", "get_coef"} /\ ~trained)
        => (IsRaise(result) /\ result.exc = "UntrainedModelError")

\* C2: trained is false after construction, becomes true only by the step
\* that completes a fit call (a fit call that raises leaves it as it was),
\* and never goes from true back to false, whatever is called.
C2_TrainedOnlyByCompletedFit ==
    /\ ~trained
    /\ [][/\ trained => trained'
          /\ (~trained /\ trained') => (FitExit /\ op' = "fit" /\ result' = None)
          /\ (op' = "fit" /\ IsRaise(result')) => trained' = trained]_vars

\* a fit call on a trained model has raised, and the model is still trained
C2_Witness == trained /\ op = "fit" /\ IsRaise(result)

\* C3 (as claimed): once trained is true no later operation, a further fit
\* call included, changes w.
C3_WNeverChangesOnceTrained == [][trained => w' = w]_vars

\* C3 (amended): w changes only in the step that completes a fit call, which
\* stores that call's weights; every other step, of fit or of another
\* method, leaves w as it is.
C3_WChangesOnlyAtFitExit ==
    [][(w' # w) => (FitExit /\ w' = lw /\ trained')]_vars

\* a second fit call has updated its own weights, w is still the first's
C3_Witness == trained /\ pc = "loop" /\ updates >= 1 /\ lw # w

\* C4 (as claimed): fit called with a label vector whose length is not the
\* row count of X fails with a ShapeMismatchError raised at fit's entry, and
\* the model does not become trained by the call.
C4_ShapeCheckedAtEntry ==
    (op = "fit" /\ Len(args[2]) # Rows(args[1]))
        => (result = Raise("ShapeMismatchError", "fit"))

\* C5: for T and Y_pred of equal length over {0, 1}, each count of
\* confusion_matrix is the number of samples with that pair of labels (label
\* 0 is the positive class), the counts sum to len(T), and they come back as
\* (TP, FP, FN, TN) with values=True and as [[TP, FN], [FP, TN]] otherwise.
Pairs(T, Y, t, y) == Cardinality({i \in 1..Len(T) : T[i] = t /\ Y[i] = y})

C5_ConfusionCounts ==
    (op = "confusion_matrix" /\ Len(args[1]) = Len(args[2])) =>
        LET T == args[1]
            Y == args[2]
            TP == Pairs(T, Y, 0, 0)
            FN == Pairs(T, Y, 0, 1)
            TN == Pairs(T, Y, 1, 1)
            FP == Pairs(T, Y, 1, 0)
        IN  /\ TP + FP + FN + TN = Len(T)
            /\ result = IF args[3] THEN Tuple(<<TP, FP, FN, TN>>)
                                   ELSE Arr(<<<<TP, FN>>, <<FP, TN>>>>)

\* the scenario T = [0, 0, 1, 1], Y_pred = [0, 1, 1, 0]
C5_Witness ==
    /\ op = "confusion_matrix"
    /\ args = <<<<0, 0, 1, 1>>, <<0, 1, 1, 0>>, TRUE>>
    /\ result = Tuple(<<1, 1, 1, 1>>)

\* the probability of the i-th row of X under the stored weights
RowProbability(X, i) == sigmoid(Dot(<<1>> \o X.rows[i], w.v))

\* the labels of result are those of the claim: one per row of X, each 0 or
\* 1, the i-th being 0 exactly when the probability of row i is below p
LabelsOf(X, p) ==
    /\ result.kind = "list"
    /\ Len(result.v) = Rows(X)
    /\ \A i \in 1..Rows(X) :
         /\ result.v[i] \in {0, 1}
         /\ result.v[i] = 0 <=> ProbLess(RowProbability(X, i), p)

\* the least float z with 1 / (1 + exp(-z)) >= p, not computed by sigmoid:
\* no z for p = 0, ln(p / (1 - p)) = 0, 0.405465108..., 2.302585092... for
\* p = 1/2, 3/5, 10/11, rounded up to the next 10^-8, and for p = 1 the
\* least z at which the double is 1.0
Cut(p) ==
    CASE p = Frac(0, 1) -> Inf(TRUE)
      [] p = Frac(1, 2) -> Hundredths(0)
      [] p = Frac(3, 5) -> Num(FALSE, <<0, 4054, 6511>>)
      [] p = Frac(10, 11) -> Num(FALSE, <<2, 3025, 8510>>)
      [] p = Frac(1, 1) -> Num(FALSE, SaturatesHigh)

\* the same labels from the dot products alone: the i-th is 0 exactly when
\* the dot product of row i is below Cut(p)
LabelsByCut(X, p) ==
    /\ result.kind = "list"
    /\ Len(result.v) = Rows(X)
    /\ \A i \in 1..Rows(X) :
         result.v[i] = 0 <=> FLt(Dot(<<1>> \o X.rows[i], w.v), Cut(p))

\* C6 (as claimed): on a trained model, predict(X, p) returns for every
\* feature matrix X and every threshold p one label per row of X, each 0 or
\* 1, the i-th being 0 exactly when the probability of row i is below p.
C6_PredictEveryX ==
    (op = "predict" /\ trained) => LabelsOf(args[1], args[2])

\* C6 (amended): on a trained model, predict(X, p) returns those labels for
\* every X with as many columns as the model was fitted with (a probability
\* equal to p gives 1), and raises ValueError for an X of any other width.
C6_PredictThresholds ==
    (op = "predict" /\ trained) =>
        IF args[1].cols + 1 = Len(w.v)
        THEN LabelsOf(args[1], args[2]) /\ LabelsByCut(args[1], args[2])
        ELSE IsRaise(result) /\ result.exc = "ValueError"

\* a row whose probability is below the threshold 10/11 is labelled 0,
\* beside a row whose probability is not and is labelled 1
C6_Witness ==
    /\ op = "predict"
    /\ trained
    /\ args[2] = Frac(10, 11)
    /\ result.kind = "list"
    /\ \E i, j \in 1..Len(result.v) :
         /\ ProbLess(RowProbability(args[1], i), args[2])
         /\ result.v[i] = 0
         /\ ~ProbLess(RowProbability(args[1], j), args[2])
         /\ result.v[j] = 1

\* C7 (as claimed): metrics and ROC do not crash on confusion counts with a
\* zero denominator or on an empty T.
C7_ZeroDenominatorNoCrash ==
    (op \in {"metrics", "ROC"})
        => ~(IsRaise(result) /\ result.exc = "ZeroDivisionError")

\* C8 (as claimed): the weights stored by a completed fit call have received
\* at least one update, for every max_iter and error_diff.
C8_FirstIterationAlwaysRuns == FitCompleted => updates >= 1

\* C8 (amended): the weights stored by a completed fit call have received at
\* least one update exactly when max_iter > 1 and error_diff < 1; without
\* an update the stored weights are the initial weights of line 51,
\* unchanged, and the model is trained all the same.
C8_FirstIterationRunsIff ==
    FitCompleted =>
        /\ updates >= 1 <=> (max_iter > 1 /\ FLt(error_diff, LossHundredths(100)))
        /\ trained
        /\ w # None
        /\ updates = 0 => w = w_init

\* a completed fit call whose stored weights were updated
C8_Witness == FitCompleted /\ updates >= 1 /\ trained /\ w # None

\* C9: whatever losses the updates give (finite, nan or inf), fit's loop
\* ends, after at most max_iter updates; it is left with the iteration
\* counter at max_iter or beyond, or with e not above error_diff; with
\* error_diff >= 0 an iteration in which the loss increased (e negative) is
\* the last one; and leaving the loop stores w and sets trained.
C9_FitLoopTerminates ==
    /\ [](updates <= max_iter)
    /\ [][FitExit => /\ iterations >= max_iter \/ ~FGt(e, error_diff)
                     /\ trained'
                     /\ w' = lw]_vars
    /\ [][(/\ pc = "loop"
           /\ updates >= 1
           /\ ~FLt(error_diff, LossHundredths(0))
           /\ FLt(e, LossHundredths(0))) => FitExit]_vars
    /\ (pc = "loop") ~> (pc = "idle")

\* a fit call completed below the iteration cap because the loss increased
C9_Witness ==
    FitCompleted /\ updates >= 1 /\ FLt(e, LossHundredths(0)) /\ iterations < max_iter

\* C10: for a trained model and a T with at least one 0 and one 1, the sweep
\* of ROC yields divisions points, recall and 1 - specificity each start at 0
\* and never decrease in sweep order, and the AUC lies in [0, 1].
NonDecreasing(s) == \A k \in 1..(Len(s) - 1) : FracLeq(s[k], s[k + 1])

C10_RocMonotoneAucInUnit ==
    (op = "ROC" /\ trained /\ {0, 1} \subseteq Range(args[2])) =>
        /\ result.kind = "plot"
        /\ Len(result.recall) = divisions
        /\ Len(result.specif_minus) = divisions
        /\ result.recall[1] = Frac(0, 1)
        /\ result.specif_minus[1] = Frac(0, 1)
        /\ NonDecreasing(result.recall)
        /\ NonDecreasing(result.specif_minus)
        /\ FracLeq(Frac(0, 1), result.auc)
        /\ FracLeq(result.auc, Frac(1, 1))

\* a sweep that ends at (1, 1), whose recall rises in more than one step
\* (two rows of label 0 with different probabilities), with an AUC strictly
\* between 1/2 and 1
C10_Witness ==
    /\ op = "ROC"
    /\ trained
    /\ result.kind = "plot"
    /\ result.recall[divisions] = Frac(1, 1)
    /\ result.specif_minus[divisions] = Frac(1, 1)
    /\ \E k \in 1..divisions :
         /\ FracLess(Frac(0, 1), result.recall[k])
         /\ FracLess(result.recall[k], Frac(1, 1))
    /\ FracLess(Frac(1, 2), result.auc)
    /\ FracLess(result.auc, Frac(1, 1))

=============================================================================
